---- MODULE Spec2Model ----
(***************************************************************************)
(* pack-crx: the CRX container codec (packCrx2, packCrx3, unpack), the     *)
(* identifier derivation (generateCrxId), the update document renderer     *)
(* (generateUpdateXML) and the fill-in-the-blanks resolver (pack).         *)
(*                                                                         *)
(* Byte buffers are sequences of integers 0..255, indexed from 1; the      *)
(* source's zero-based offsets are shifted by one where a buffer is read.  *)
(* A JavaScript value is a tagged record: [t |-> "undefined"],             *)
(* [t |-> "null"], [t |-> "bytes", b |-> <<..>>], [t |-> "str", s |-> ..], *)
(* [t |-> "chars", c |-> <<..>>], [t |-> "path", p |-> ..],                *)
(* [t |-> "rsa", k |-> ..], [t |-> "manifest", ..].                        *)
(***************************************************************************)
EXTENDS Integers, Sequences, FiniteSets, TLC

VARIABLES
    op,        \* codec harness: the exported function called last
    arg,       \* codec harness: the arguments of the calls
    crxbuf,    \* codec harness: the Uint8Array produced by packCrx2/packCrx3
    out,       \* codec harness: what the last call returned or threw
    signed,    \* codec harness: the bytes the last call handed to rsa.sign
    zip,       \* packContents: the entries added to the archive, the reads pending
    pc,        \* pack: the statement of pack() that runs next
    input,     \* pack: the record as the caller built it
    options,   \* pack: the record pack() mutates in place
    fsys,      \* pack: the files and the directory the paths name
    err,       \* pack: the error pack() rejected with
    keygens,   \* pack: how many key pairs pack() has generated
    result,    \* pack: the object the promise of pack() resolved with
    steps,     \* pack: the outputs computed so far, each with what it was computed from
    keybits,   \* pack: the size of the key pair generated last
    again      \* pack: the state in which pack() was called a second time

vars == <<op, arg, crxbuf, out, signed, zip, pc, input, options, fsys, err, keygens, result, steps, keybits, again>>
codecVars == <<op, arg, crxbuf, out, signed, zip>>
packVars == <<pc, input, options, fsys, err, keygens, result, steps, keybits, again>>

(***************************************************************************)
(* Bounds of the model.                                                    *)
(***************************************************************************)
MaxContents == 2   \* longest contents buffer handed to the codec
NumKeys == 2       \* distinct RSA key pairs

(***************************************************************************)
(* JavaScript values.                                                      *)
(***************************************************************************)
Undefined == [t |-> "undefined"]
Null == [t |-> "null"]
Bytes(b) == [t |-> "bytes", b |-> b]
Str(s) == [t |-> "str", s |-> s]
Chars(c) == [t |-> "chars", c |-> c]   \* a string held as its characters
Path(p) == [t |-> "path", p |-> p]
Num(n) == [t |-> "num", n |-> n]
Manifest(version, min) ==
    [t |-> "manifest", version |-> version, minimum_chrome_version |-> min]
IsUndefined(x) == x.t = "undefined"
IsNull(x) == x.t = "null"
IsBytes(x) == x.t = "bytes"
IsPath(x) == x.t = "path"

Returned(v) == [ok |-> TRUE, val |-> v]
Threw(e) == [ok |-> FALSE, err |-> e]
RangeError == "RangeError"
FormatError == "The file given is not a valid CRX file"

(***************************************************************************)
(* Typed arrays and DataView.                                              *)
(***************************************************************************)
Min(a, b) == IF a < b THEN a ELSE b

\* Uint8Array.prototype.slice(start, end) for 0 <= start, end (zero-based,
\* both clamped to the length).
Slice(s, start, end) ==
    LET lo == Min(start, Len(s))
        hi == Min(end, Len(s))
    IN  IF hi <= lo THEN <<>> ELSE SubSeq(s, lo + 1, hi)

SliceFrom(s, start) == Slice(s, start, Len(s))

\* DataView.prototype.setUint32(_, n, true): four bytes, least significant first.
\* Every n written is a buffer length below 2^31, where the reduction modulo
\* 2^32 that setUint32 applies changes nothing.
LE32(n) ==
    <<n % 256, (n \div 256) % 256, (n \div 65536) % 256, (n \div 16777216) % 256>>

\* DataView.prototype.getUint32(pos, true) on an in-range position.
GetUint32(buf, pos) ==
    buf[pos + 1] + 256 * buf[pos + 2] + 65536 * buf[pos + 3] + 16777216 * buf[pos + 4]

RECURSIVE SumBytes(_)
SumBytes(s) == IF s = <<>> THEN 0 ELSE Head(s) + SumBytes(Tail(s))

RECURSIVE Flatten(_)
Flatten(ss) == IF ss = <<>> THEN <<>> ELSE Head(ss) \o Flatten(Tail(ss))

(***************************************************************************)
(* Primitives the package consumes: SHA-256 and RSA (node:crypto,          *)
(* node-rsa).  Their mathematics is out of scope; what the package relies  *)
(* on is kept: a digest is 32 bytes and a function of its input, a         *)
(* signature is a non-empty byte string that is a function of the signing  *)
(* key, the scheme and the signed bytes, and a key pair has a private and  *)
(* a public pkcs8-der encoding.                                            *)
(***************************************************************************)
DigestLen == 32

Sha256(data) ==
    [i \in 1..DigestLen |->
        (SumBytes(data) * (2 * i + 1) + 7 * i * i + 13 * Len(data) + 99) % 256]

KeyIds == 1..NumKeys
PrivateDer(k) == <<48, 130, k>>
PublicDer(k) == <<48, 129, k>>
\* new RSA(Buffer.from(privateKey), "pkcs8-private-der"): the key pair of a
\* private key in pkcs8-der.
ImportPrivateDer(b) == b[3]
NewRsa(k) == [t |-> "rsa", k |-> k]

\* The pkcs8-pem texts of a key pair, as the bytes of a key file, and a file
\* that holds no key.
PrivatePem(k) == <<45, 45, 80, k>>
PublicPem(k) == <<45, 45, 85, k>>
NotAKey == <<0>>
KeyFormatError == "not a pkcs8-pem key"
\* new RSA(contents, "pkcs8-private-pem"): the key pair of a private key in
\* pkcs8-pem; the constructor throws on anything else.
ImportPrivatePem(b) ==
    IF \E k \in KeyIds : b = PrivatePem(k) THEN Returned(NewRsa(b[4])) ELSE Threw(KeyFormatError)
\* new RSA(contents, "pkcs8-public-pem")
ImportPublicPem(b) ==
    IF \E k \in KeyIds : b = PublicPem(k) THEN Returned(NewRsa(b[4])) ELSE Threw(KeyFormatError)

SchemeCode(scheme) == IF scheme = "pkcs1-sha1" THEN 1 ELSE 2
\* rsa.setOptions({signingScheme}); rsa.sign(data)
RsaSign(rsa, scheme, data) ==
    <<rsa.k, SchemeCode(scheme), SumBytes(data) % 256, Len(data) % 256>>

(***************************************************************************)
(* Constants of the container format.                                      *)
(***************************************************************************)
CRX_ID_SIZE == 16
SIZE_BYTES == 4
kSignature == <<67, 114, 50, 52>>
kVersion == <<3, 0, 0, 0>>
kSignatureContext == <<67, 82, 88, 51, 32, 83, 105, 103, 110, 101, 100, 68, 97, 116, 97, 0>>

(***************************************************************************)
(* pbf: the protocol-buffer writer and reader the generated crx3.pb code   *)
(* drives.  A field key is the varint (tag * 8 + wire type); the only wire *)
(* type the three messages use is 2 (length-delimited).                    *)
(***************************************************************************)
RECURSIVE WriteVarint(_)
WriteVarint(n) ==
    IF n < 128 THEN <<n>> ELSE <<128 + (n % 128)>> \o WriteVarint(n \div 128)

\* pbf.writeBytesField(tag, buffer)
WriteBytesField(tag, b) == WriteVarint(tag * 8 + 2) \o WriteVarint(Len(b)) \o b

\* pbf.writeMessage(tag, fn, obj), body being what fn(obj, pbf) wrote
WriteMessage(tag, body) == WriteVarint(tag * 8 + 2) \o WriteVarint(Len(body)) \o body

\* pbf.readVarint() at zero-based position pos: [val, pos]
RECURSIVE ReadVarint(_, _)
ReadVarint(buf, pos) ==
    LET b == buf[pos + 1]
    IN  IF b < 128 THEN [val |-> b, pos |-> pos + 1]
        ELSE LET r == ReadVarint(buf, pos + 1)
             IN  [val |-> (b % 128) + 128 * r.val, pos |-> r.pos]

\* pbf.readBytes() at pos: [val, pos]
ReadBytes(buf, pos) ==
    LET n == ReadVarint(buf, pos)
    IN  [val |-> Slice(buf, n.pos, n.val + n.pos), pos |-> n.val + n.pos]

\* pbf.skip(val) for a field no reader consumed
RECURSIVE SkipVarint(_, _)
SkipVarint(buf, pos) == IF buf[pos + 1] > 127 THEN SkipVarint(buf, pos + 1) ELSE pos + 1

Skip(buf, pos, val) ==
    LET type == val % 8
    IN  CASE type = 0 -> SkipVarint(buf, pos)
          [] type = 2 -> LET n == ReadVarint(buf, pos) IN n.val + n.pos
          [] type = 5 -> pos + 4
          [] type = 1 -> pos + 8
          [] OTHER -> pos + Len(buf) + 1   \* throws "Unimplemented type": reading stops

(***************************************************************************)
(* crx3.pb: SignedData, AsymmetricKeyProof, CrxFileHeader.                 *)
(***************************************************************************)
\* JavaScript truthiness of the values a field can hold
Truthy(x) ==
    CASE x.t = "undefined" -> FALSE
      [] x.t = "null" -> FALSE
      [] x.t = "str" -> x.s /= ""
      [] x.t = "chars" -> x.c /= <<>>
      [] x.t = "num" -> x.n /= 0
      [] OTHER -> TRUE

SignedDataWrite(obj) ==
    IF Truthy(obj.crx_id) THEN WriteBytesField(1, obj.crx_id.b) ELSE <<>>

AsymmetricKeyProofWrite(obj) ==
    (IF Truthy(obj.public_key) THEN WriteBytesField(1, obj.public_key.b) ELSE <<>>)
    \o (IF Truthy(obj.signature) THEN WriteBytesField(2, obj.signature.b) ELSE <<>>)

RECURSIVE WriteProofs(_, _)
WriteProofs(tag, proofs) ==
    IF proofs = <<>> THEN <<>>
    ELSE WriteMessage(tag, AsymmetricKeyProofWrite(Head(proofs))) \o WriteProofs(tag, Tail(proofs))

CrxFileHeaderWrite(obj) ==
    WriteProofs(2, obj.sha256_with_rsa)
    \o WriteProofs(3, obj.sha256_with_ecdsa)
    \o (IF Truthy(obj.signed_header_data)
        THEN WriteBytesField(10000, obj.signed_header_data.b) ELSE <<>>)

\* X._readField(tag, obj, pbf) of the three messages: [obj, pos]
RECURSIVE ReadFields(_, _, _, _, _)
ReadField(msg, tag, obj, buf, pos) ==
    CASE msg = "SignedData" /\ tag = 1 ->
            LET r == ReadBytes(buf, pos)
            IN  [obj |-> [obj EXCEPT !.crx_id = Bytes(r.val)], pos |-> r.pos]
      [] msg = "AsymmetricKeyProof" /\ tag = 1 ->
            LET r == ReadBytes(buf, pos)
            IN  [obj |-> [obj EXCEPT !.public_key = Bytes(r.val)], pos |-> r.pos]
      [] msg = "AsymmetricKeyProof" /\ tag = 2 ->
            LET r == ReadBytes(buf, pos)
            IN  [obj |-> [obj EXCEPT !.signature = Bytes(r.val)], pos |-> r.pos]
      [] msg = "CrxFileHeader" /\ tag \in {2, 3} ->
            LET n == ReadVarint(buf, pos)
                r == ReadFields("AsymmetricKeyProof",
                                [public_key |-> Null, signature |-> Null],
                                buf, n.pos, n.val + n.pos)
            IN  [obj |-> IF tag = 2
                         THEN [obj EXCEPT !.sha256_with_rsa = Append(@, r.obj)]
                         ELSE [obj EXCEPT !.sha256_with_ecdsa = Append(@, r.obj)],
                 pos |-> r.pos]
      [] msg = "CrxFileHeader" /\ tag = 10000 ->
            LET r == ReadBytes(buf, pos)
            IN  [obj |-> [obj EXCEPT !.signed_header_data = Bytes(r.val)], pos |-> r.pos]
      [] OTHER -> [obj |-> obj, pos |-> pos]

\* pbf.readFields(readField, result, end)
ReadFields(msg, obj, buf, pos, end) ==
    IF pos >= end THEN [obj |-> obj, pos |-> pos]
    ELSE LET key == ReadVarint(buf, pos)
             f == ReadField(msg, key.val \div 8, obj, buf, key.pos)
             next == IF f.pos = key.pos THEN Skip(buf, key.pos, key.val) ELSE f.pos
         IN  ReadFields(msg, f.obj, buf, next, end)

SignedDataRead(buf) ==
    ReadFields("SignedData", [crx_id |-> Null], buf, 0, Len(buf)).obj

CrxFileHeaderRead(buf) ==
    ReadFields("CrxFileHeader",
               [sha256_with_rsa |-> <<>>, sha256_with_ecdsa |-> <<>>,
                signed_header_data |-> Null],
               buf, 0, Len(buf)).obj

(***************************************************************************)
(* The container codec.                                                    *)
(***************************************************************************)
Zeros(n) == [i \in 1..n |-> 0]

\* TypedArray.prototype.set(source, offset) and DataView.prototype.setUint32 on
\* the result so far: a RangeError when the source does not fit.
SetThen(r, src, offset) ==
    IF ~r.ok THEN r
    ELSE IF offset + Len(src) > Len(r.val) THEN Threw(RangeError)
    ELSE Returned([i \in 1..Len(r.val) |->
            IF i > offset /\ i <= offset + Len(src) THEN src[i - offset] ELSE r.val[i]])

\* rsa ??= new RSA(Buffer.from(privateKey), "pkcs8-private-der")
RsaOr(rsa, privateKey) ==
    IF IsUndefined(rsa) THEN NewRsa(ImportPrivateDer(privateKey)) ELSE rsa

generateBinaryCrxIdMut(publicKey) == Slice(Sha256(publicKey), 1, CRX_ID_SIZE + 1)

\* lines 314-318
generateBinaryCrxId(publicKey) == Slice(Sha256(publicKey), 0, CRX_ID_SIZE)

Crx3ToSignMut(signedHeaderData, contents) ==
    kSignatureContext \o signedHeaderData \o contents

\* The bytes generateCrx3Signature hands to rsa.sign
Crx3ToSign(signedHeaderData, contents) ==
    kSignatureContext \o LE32(Len(signedHeaderData)) \o signedHeaderData \o contents

generateCrx3Signature(privateKey, signedHeaderData, contents, rsa) ==
    RsaSign(RsaOr(rsa, privateKey), "pkcs1-sha256", Crx3ToSign(signedHeaderData, contents))

Crx3SignedHeaderData(publicKey) ==
    SignedDataWrite([crx_id |-> Bytes(generateBinaryCrxId(publicKey))])

Crx3HeaderMut(privateKey, publicKey, contents, rsa) ==
    LET signedHeaderData == Crx3SignedHeaderData(publicKey)
        signature == generateCrx3Signature(privateKey, signedHeaderData, contents, rsa)
        proof == [public_key |-> Bytes(publicKey), signature |-> Bytes(signature)]
    IN  CrxFileHeaderWrite(
            [sha256_with_rsa |-> <<proof>>,
             sha256_with_ecdsa |-> <<proof>>,
             signed_header_data |-> Bytes(signedHeaderData)])

\* lines 278-293: the header message packCrx3 writes
Crx3Header(privateKey, publicKey, contents, rsa) ==
    LET signedHeaderData == Crx3SignedHeaderData(publicKey)
        signature == generateCrx3Signature(privateKey, signedHeaderData, contents, rsa)
    IN  CrxFileHeaderWrite(
            [sha256_with_rsa |-> <<[public_key |-> Bytes(publicKey),
                                    signature |-> Bytes(signature)]>>,
             sha256_with_ecdsa |-> <<>>,
             signed_header_data |-> Bytes(signedHeaderData)])

packCrx3Mut(privateKey, publicKey, contents, rsa) ==
    LET header == Crx3Header(privateKey, publicKey, contents, rsa)
        size == Len(kSignature) + Len(kVersion) + SIZE_BYTES + Len(header) + Len(contents)
        i1 == Len(kSignature)
        i2 == i1 + Len(kVersion)
        i3 == i2 + SIZE_BYTES
        i4 == i3 + Len(header)
    IN  SetThen(SetThen(SetThen(SetThen(SetThen(Returned(Zeros(size)),
            kSignature, 0), kVersion, i1), LE32(size), i2), header, i3), contents, i4)

packCrx3(privateKey, publicKey, contents, rsa) ==
    LET header == Crx3Header(privateKey, publicKey, contents, rsa)
        size == Len(kSignature) + Len(kVersion) + SIZE_BYTES + Len(header) + Len(contents)
        i1 == Len(kSignature)
        i2 == i1 + Len(kVersion)
        i3 == i2 + SIZE_BYTES
        i4 == i3 + Len(header)
    IN  SetThen(SetThen(SetThen(SetThen(SetThen(Returned(Zeros(size)),
            kSignature, 0), kVersion, i1), LE32(Len(header)), i2), header, i3), contents, i4)

packCrx2(privateKey, publicKey, contents, rsa) ==
    LET signature == RsaSign(RsaOr(rsa, privateKey), "pkcs1-sha1", contents)
        length == 16 + Len(publicKey) + Len(signature)
    IN  SetThen(SetThen(SetThen(SetThen(SetThen(SetThen(SetThen(Returned(Zeros(length)),
            kSignature, 0), LE32(2), 4), LE32(Len(publicKey)), 8), LE32(Len(signature)), 12),
            publicKey, 16), signature, 16 + Len(publicKey)), contents, length)

\* A Uint8Array: a window of `length` bytes at `byteOffset` of an ArrayBuffer.
View(buffer, byteOffset, length) ==
    [buffer |-> buffer, byteOffset |-> byteOffset, length |-> length]
Whole(b) == View(b, 0, Len(b))
ViewBytes(crx) == Slice(crx.buffer, crx.byteOffset, crx.byteOffset + crx.length)

\* kSignature.every((v, i) => dv.getUint8(i) == v): stops at the first
\* mismatch; getUint8 past the end of the ArrayBuffer throws.
RECURSIVE EveryMagic(_, _)
EveryMagic(abuf, i) ==
    IF i >= Len(kSignature) THEN "match"
    ELSE IF i >= Len(abuf) THEN "throw"
    ELSE IF abuf[i + 1] /= kSignature[i + 1] THEN "mismatch"
    ELSE EveryMagic(abuf, i + 1)

unpack(crx) ==
    LET abuf == crx.buffer
        bytes == ViewBytes(crx)
        magic == EveryMagic(abuf, 0)
    IN  IF magic = "throw" THEN Threw(RangeError)
        ELSE IF magic = "mismatch" THEN Threw(FormatError)
        ELSE IF Len(abuf) < 8 THEN Threw(RangeError)
        ELSE LET crxVersion == GetUint32(abuf, 4)
             IN  IF crxVersion = 2 THEN
                     IF Len(abuf) < 16 THEN Threw(RangeError)
                     ELSE LET keyLength == GetUint32(abuf, 8)
                              signLength == GetUint32(abuf, 12)
                          IN  Returned([archive |-> SliceFrom(bytes, 16 + keyLength + signLength),
                                        crxVersion |-> 2,
                                        key |-> Slice(bytes, 16, 16 + keyLength),
                                        sign |-> Slice(bytes, 16 + keyLength,
                                                       16 + keyLength + signLength)])
                 ELSE IF crxVersion = 3 THEN
                     IF Len(abuf) < 12 THEN Threw(RangeError)
                     ELSE LET headerLength == GetUint32(abuf, 8)
                              archive == SliceFrom(bytes, 12 + headerLength)
                              header == Slice(bytes, 12, 12 + headerLength)
                          IN  Returned([archive |-> archive,
                                        crxVersion |-> 3,
                                        header |-> CrxFileHeaderRead(header)])
                 ELSE Threw(FormatError)

(***************************************************************************)
(* generateCrxId.  A string is the sequence of its characters.             *)
(***************************************************************************)
HexDigits == <<"0", "1", "2", "3", "4", "5", "6", "7",
               "8", "9", "a", "b", "c", "d", "e", "f">>
Digits36 == <<"0", "1", "2", "3", "4", "5", "6", "7", "8", "9",
              "a", "b", "c", "d", "e", "f", "g", "h", "i", "j", "k", "l", "m",
              "n", "o", "p", "q", "r", "s", "t", "u", "v", "w", "x", "y", "z">>

\* Buffer.prototype.toString("hex").split("")
ToHex(bytes) ==
    Flatten([i \in 1..Len(bytes) |->
        <<HexDigits[(bytes[i] \div 16) + 1], HexDigits[(bytes[i] % 16) + 1]>>])

\* parseInt(x, 16) of one hexadecimal digit
ParseInt16(x) == CHOOSE v \in 0..15 : HexDigits[v + 1] = x

\* Number.prototype.toString(radix) of a non-negative integer
RECURSIVE NumberToString(_, _)
NumberToString(n, radix) ==
    IF n < radix THEN <<Digits36[n + 1]>>
    ELSE NumberToString(n \div radix, radix) \o <<Digits36[(n % radix) + 1]>>

generateCrxIdMut(publicKey) ==
    LET hex == ToHex(Sha256(publicKey))
    IN  Slice(Flatten([i \in 1..Len(hex) |-> NumberToString(ParseInt16(hex[i]) + 10, 26)]), 0, 24)

generateCrxId(publicKey) ==
    LET hex == ToHex(Sha256(publicKey))
    IN  Slice(Flatten([i \in 1..Len(hex) |-> NumberToString(ParseInt16(hex[i]) + 10, 26)]), 0, 32)

(***************************************************************************)
(* generateUpdateXML.  The document is the sequence of the pieces the      *)
(* template literal concatenates: Lit(s) is a piece of the template,       *)
(* Val(x) is `${x}`, the text of the value x.  Each attribute opener is a  *)
(* piece of its own, followed by the interpolated value.                   *)
(***************************************************************************)
Lit(s) == [lit |-> s]
Val(x) == [val |-> x]

XmlHead(crxId, url, version) ==
    <<Lit("<?xml version='1.0' encoding='UTF-8'?>\n<gupdate xmlns='http://www.google.com/update2/response' protocol='2.0'>\n  <app"),
      Lit(" appid='"), Val(crxId), Lit("'"), Lit(">\n    <updatecheck"),
      Lit(" codebase='"), Val(url), Lit("'"),
      Lit(" version='"), Val(version), Lit("'")>>
XmlTail == <<Lit(" />\n  </app>\n</gupdate>")>>

generateUpdateXMLMut(crxId, url, version, minChromeVersion) ==
    XmlHead(crxId, url, version)
    \o (IF ~IsUndefined(minChromeVersion)
        THEN <<Lit(" prodversionmin='"), Val(minChromeVersion), Lit("'")>> ELSE <<>>)
    \o XmlTail

generateUpdateXML(crxId, url, version, minChromeVersion) ==
    XmlHead(crxId, url, version)
    \o (IF Truthy(minChromeVersion)
        THEN <<Lit(" prodversionmin='"), Val(minChromeVersion), Lit("'")>> ELSE <<>>)
    \o XmlTail

(***************************************************************************)
(* The codec harness: a caller of the exported pure functions, while no    *)
(* pack() call is under way (pc = "idle").                                 *)
(***************************************************************************)
RECURSIVE SeqsUpTo(_, _)
SeqsUpTo(S, n) ==
    IF n = 0 THEN {<<>>}
    ELSE LET shorter == SeqsUpTo(S, n - 1)
         IN  shorter \cup {Append(s, x) : s \in shorter, x \in S}

ContentsInputs == SeqsUpTo({7, 200}, MaxContents)
PrivateKeyInputs == {PrivateDer(k) : k \in KeyIds}
PublicKeyInputs == {PublicDer(k) : k \in KeyIds} \cup {<<>>}
RsaInputs == {Undefined} \cup {NewRsa(k) : k \in KeyIds}
MinVersionInputs == {Undefined, Str(""), Str("90.0")}

Take(s, n) == Slice(s, 0, n)

\* Buffers handed to unpack that no pack function produced: a magic, a version
\* field, length fields and a tail, cut at every length.
RawMagics == {kSignature, <<67, 114, 50, 53>>, <<0, 114, 50, 52>>}
RawVersions == {LE32(2), LE32(3), LE32(1), LE32(4), <<2, 0, 0, 1>>, <<3, 1, 0, 0>>}
RawRests == {LE32(0) \o LE32(0) \o <<9>>, LE32(0) \o LE32(1) \o <<9, 8>>}
RawBuffers ==
    {Take(m \o v \o r, n) : m \in RawMagics, v \in RawVersions, r \in RawRests, n \in 0..18}
\* What precedes a view in its ArrayBuffer: nothing, or an earlier CRX3 frame.
RawPrefixes == {<<>>, kSignature \o LE32(3) \o LE32(0)}
RawViews == {View(p \o b, Len(p), Len(b)) : p \in RawPrefixes, b \in RawBuffers}

NoCall == [fn |-> "none"]
NoView == View(<<>>, 0, 0)
NoZip == [entries |-> <<>>, pending |-> {}]

CodecIdle ==
    /\ op = "none"
    /\ arg = NoCall
    /\ crxbuf = NoView
    /\ out = Returned(Undefined)
    /\ signed = <<>>
    /\ zip = NoZip

CallPackCrx3 ==
    /\ pc = "idle"
    /\ op = "none"
    /\ \E k \in PrivateKeyInputs, p \in PublicKeyInputs, c \in ContentsInputs, r \in RsaInputs :
        LET res == packCrx3(k, p, c, r)
        IN  /\ arg' = [fn |-> "packCrx3", privateKey |-> k, publicKey |-> p,
                       contents |-> c, rsa |-> r]
            /\ out' = res
            /\ signed' = Crx3ToSign(Crx3SignedHeaderData(p), c)
            /\ crxbuf' = IF res.ok THEN Whole(res.val) ELSE NoView
    /\ op' = "packCrx3"
    /\ UNCHANGED zip
    /\ UNCHANGED packVars

CallPackCrx2 ==
    /\ pc = "idle"
    /\ op = "none"
    /\ \E k \in PrivateKeyInputs, p \in PublicKeyInputs, c \in ContentsInputs, r \in RsaInputs :
        LET res == packCrx2(k, p, c, r)
        IN  /\ arg' = [fn |-> "packCrx2", privateKey |-> k, publicKey |-> p,
                       contents |-> c, rsa |-> r]
            /\ out' = res
            /\ signed' = c
            /\ crxbuf' = IF res.ok THEN Whole(res.val) ELSE NoView
    /\ op' = "packCrx2"
    /\ UNCHANGED zip
    /\ UNCHANGED packVars

\* unpack of what packCrx2 or packCrx3 just returned
CallUnpack ==
    /\ pc = "idle"
    /\ op \in {"packCrx2", "packCrx3"}
    /\ out.ok
    /\ out' = unpack(crxbuf)
    /\ op' = "unpack"
    /\ UNCHANGED <<arg, crxbuf, signed>>
    /\ UNCHANGED zip
    /\ UNCHANGED packVars

\* unpack of a buffer of any origin
CallUnpackRaw ==
    /\ pc = "idle"
    /\ op = "none"
    /\ \E v \in RawViews :
        /\ crxbuf' = v
        /\ out' = unpack(v)
    /\ arg' = [fn |-> "unpack"]
    /\ op' = "unpackRaw"
    /\ UNCHANGED signed
    /\ UNCHANGED zip
    /\ UNCHANGED packVars

CallGenerateCrxId ==
    /\ pc = "idle"
    /\ op = "none"
    /\ \E p \in PublicKeyInputs :
        /\ arg' = [fn |-> "generateCrxId", publicKey |-> p]
        /\ out' = Returned(generateCrxId(p))
    /\ op' = "generateCrxId"
    /\ UNCHANGED <<crxbuf, signed>>
    /\ UNCHANGED zip
    /\ UNCHANGED packVars

CallGenerateUpdateXML ==
    /\ pc = "idle"
    /\ op = "none"
    /\ \E p \in PublicKeyInputs, u \in {"https://x/e.crx"}, v \in {"1.2.3", "2.0"},
          m \in MinVersionInputs :
        /\ arg' = [fn |-> "generateUpdateXML", crxId |-> Chars(generateCrxId(p)),
                   url |-> Str(u), version |-> Str(v), minChromeVersion |-> m]
        /\ out' = Returned(generateUpdateXML(Chars(generateCrxId(p)), Str(u), Str(v), m))
    /\ op' = "generateUpdateXML"
    /\ UNCHANGED <<crxbuf, signed>>
    /\ UNCHANGED zip
    /\ UNCHANGED packVars

(***************************************************************************)
(* packContents: the walk over a directory, the reads it issues and the    *)
(* archive built from them.  A relative path is the sequence of its        *)
(* components; an archive is the sequence of its entries, in the order     *)
(* JSZip keeps them, which is the order of the zip.file calls.             *)
(***************************************************************************)
File(name) == [name |-> name, dir |-> FALSE, entries |-> <<>>]
Dir(name, entries) == [name |-> name, dir |-> TRUE, entries |-> entries]

\* The orders in which readdir may list a set of entries.
Orders(S) ==
    {l \in [1..Cardinality(S) -> S] : \A i, j \in 1..Cardinality(S) : l[i] = l[j] => i = j}

RootFiles == {"manifest.json", "a.js"}
SubFiles == {"manifest.json", "b.js"}
\* Directory trees as readdir lists them: files at the root and, possibly,
\* one directory "sub" with files of its own.
Listings ==
    UNION {UNION {Orders({File(n) : n \in R} \cup D) :
                    D \in {{}} \cup {{Dir("sub", l)} : l \in UNION {Orders({File(n) : n \in S}) :
                                                                   S \in SUBSET SubFiles}}} :
           R \in SUBSET RootFiles}

\* What readFile gives for each file, and JSON.parse of a manifest.
FileData(rp) == IF Len(rp) = 1 THEN <<123, 1>> ELSE <<123, 2>>
ParseManifest(data) == Manifest(IF data[2] = 1 THEN Str("1.0") ELSE Str("2.0"), Undefined)
ManifestNotFound == "Manifest file not found"

\* lines 369-381: f(loc), the relative paths in the order zip.file is called
RECURSIVE Walk(_, _)
Walk(loc, listing) ==
    IF listing = <<>> THEN <<>>
    ELSE LET entry == Head(listing)
             fp == Append(loc, entry.name)
         IN  (IF entry.dir THEN Walk(fp, entry.entries) ELSE <<fp>>) \o Walk(loc, Tail(listing))

Range(s) == {s[i] : i \in 1..Len(s)}

\* line 377: manifest is set by a file whose relative path is "manifest.json"
HasRootManifest(paths) == <<"manifest.json">> \in Range(paths)

\* zip.generateAsync: the entries in the archive, in the order they were added
Archive(paths) == [i \in 1..Len(paths) |-> [path |-> paths[i], data |-> FileData(paths[i])]]

\* packContents(where) up to its first await after the walk: every read is
\* issued, none is awaited; without a manifest it throws.
StartPackContents ==
    /\ pc = "idle"
    /\ op = "none"
    /\ \E listing \in Listings :
        LET paths == Walk(<<>>, listing)
        IN  /\ arg' = [fn |-> "packContents", listing |-> listing]
            /\ zip' = [entries |-> paths, pending |-> Range(paths)]
            /\ IF HasRootManifest(paths)
               THEN op' = "packingContents" /\ UNCHANGED out
               ELSE op' = "packContents" /\ out' = Threw(ManifestNotFound)
    /\ UNCHANGED <<crxbuf, signed>>
    /\ UNCHANGED packVars

\* one of the reads issued at line 375 completes
ReadCompletes ==
    /\ op = "packingContents"
    /\ \E rp \in zip.pending : zip' = [zip EXCEPT !.pending = @ \ {rp}]
    /\ UNCHANGED <<op, arg, crxbuf, out, signed>>
    /\ UNCHANGED packVars

\* lines 384-390: generateAsync and the manifest promise settle once every
\* read has completed
FinishPackContents ==
    /\ op = "packingContents"
    /\ zip.pending = {}
    /\ out' = Returned([contents |-> Archive(zip.entries),
                        manifest |-> ParseManifest(FileData(<<"manifest.json">>))])
    /\ op' = "packContents"
    /\ UNCHANGED <<arg, crxbuf, signed, zip>>
    /\ UNCHANGED packVars

(***************************************************************************)
(* pack: the record of options, the files its paths name, and the          *)
(* statements of pack() between two suspension points.                     *)
(***************************************************************************)
\* The record with no field set.
NoOptions ==
    [contents |-> Undefined, privateKey |-> Undefined, keySize |-> Undefined,
     publicKey |-> Undefined, rsa |-> Undefined, id |-> Undefined, crx |-> Undefined,
     crxVersion |-> Undefined, crxUrl |-> Undefined, updateXML |-> Undefined,
     extVersion |-> Undefined, minChromeVersion |-> Undefined, manifest |-> Undefined]

\* What the caller may put in each field.
ArchiveBytes == <<80, 75, 3, 4>>       \* a ZIP archive given as a buffer
PackagedBytes == <<80, 75, 5, 6, 1>>   \* the ZIP archive packContents builds
ManifestInputs == {Manifest(Str("1.0"), Undefined), Manifest(Str("1.0"), Str("90.0"))}
PrivateKeyPaths == {"./key.pem", "./key.der"}
PublicKeyPaths == {"./pub.pem", "./pub.der"}
GivenId == Chars(<<"a", "b", "c">>)
GivenCrx == Bytes(<<1, 2, 3>>)
GivenUpdateXML == Str("<gupdate/>")
GivenExtVersion == Str("2.0")
GivenMinChromeVersion == Str("64.0")
GivenManifest == Manifest(Str("0.9"), Undefined)

\* Records whose outputs are unset or requested.
RequestInputs ==
    [contents : {Undefined, Bytes(ArchiveBytes), Path("./extension")},
     privateKey : {Undefined, Null, Bytes(PrivateDer(1)), Path("./key.pem")},
     keySize : {Undefined},
     publicKey : {Undefined, Null, Bytes(PublicDer(1)), Path("./pub.der")},
     rsa : {Undefined},
     id : {Undefined, Null},
     crx : {Undefined, Null},
     crxVersion : {Undefined, Num(2), Num(3), Num(5)},
     crxUrl : {Undefined, Str("https://x/e.crx")},
     updateXML : {Undefined, Null},
     extVersion : {Undefined, Null},
     minChromeVersion : {Undefined, Null},
     manifest : {Undefined, Null, GivenManifest}]

\* Records in which the caller gives some of the outputs.
GivenInputs ==
    [contents : {Bytes(ArchiveBytes), Path("./extension")},
     privateKey : {Null, Bytes(PrivateDer(1))},
     keySize : {Undefined},
     publicKey : {Undefined, Bytes(PublicDer(2))},
     rsa : {Undefined},
     id : {Undefined, Null, GivenId},
     crx : {Undefined, Null, GivenCrx},
     crxVersion : {Undefined},
     crxUrl : {Str("https://x/e.crx")},
     updateXML : {Undefined, Null, GivenUpdateXML},
     extVersion : {Undefined, Null, GivenExtVersion},
     minChromeVersion : {Undefined, Null, GivenMinChromeVersion},
     manifest : {Undefined, GivenManifest}]

\* Records whose keys are files, with or without an rsa instance of the caller.
KeyFileInputs ==
    [contents : {Undefined, Bytes(ArchiveBytes)},
     privateKey : {Undefined, Null, Bytes(PrivateDer(1))} \cup {Path(p) : p \in PrivateKeyPaths},
     keySize : {Undefined, Num(2048)},
     publicKey : {Undefined, Null, Bytes(PublicDer(1))} \cup {Path(p) : p \in PublicKeyPaths},
     rsa : {Undefined, NewRsa(2)},
     id : {Undefined, Null},
     crx : {Undefined, Null},
     crxVersion : {Undefined},
     crxUrl : {Undefined},
     updateXML : {Undefined},
     extVersion : {Undefined},
     minChromeVersion : {Undefined},
     manifest : {Undefined}]

PackInputs == RequestInputs \cup GivenInputs \cup KeyFileInputs

EndsWithPem(p) == p \in {"./key.pem", "./pub.pem"}

\* What fs.readFile of a key file gives: the bytes stored there, or an error.
\* A file named .pem holds a key in pkcs8-pem or no key at all, any other
\* file holds a key in pkcs8-der.
ReadErrors == {[kind |-> "error", e |-> "ENOENT"], [kind |-> "error", e |-> "EACCES"]}
FileOf(b) == [kind |-> "file", bytes |-> b]
PrivateKeyFiles(p) ==
    ReadErrors \cup (IF EndsWithPem(p)
                     THEN {FileOf(PrivatePem(k)) : k \in KeyIds} \cup {FileOf(NotAKey)}
                     ELSE {FileOf(PrivateDer(k)) : k \in KeyIds})
PublicKeyFiles(p) ==
    ReadErrors \cup (IF EndsWithPem(p)
                     THEN {FileOf(PublicPem(k)) : k \in KeyIds} \cup {FileOf(NotAKey)}
                     ELSE {FileOf(PublicDer(k)) : k \in KeyIds})
\* What packContents of a directory gives.
DirOutcomes == {[kind |-> "packed", contents |-> PackagedBytes, manifest |-> m] : m \in ManifestInputs}
                   \cup {[kind |-> "error", e |-> "Manifest file not found"]}
Unread == [kind |-> "unread"]
NothingRead == [privateKey |-> Unread, publicKey |-> Unread, contents |-> Unread]

NoError == ""
CrxUrlError == "crxUrl must be defined to generate updateXML"
ContentsError == "contents must be defined to generate crx"
ManifestError == "manifest must be defined to generate extVersion"

\* The object the caller passes to pack(), as a reference.
CallerRecord == [t |-> "ref", obj |-> "options"]

\* A run of pack(): the record the parameter options refers to, its fields,
\* the error thrown (if any), the keys generated.
Run(o, e, gen) ==
    [self |-> CallerRecord, o |-> o, err |-> e, gen |-> gen, steps |-> <<>>, bits |-> 0]
\* The output computed and the values it was computed from.
Step(r, output, used) == [r EXCEPT !.steps = Append(@, [output |-> output, used |-> used])]
Then(r, F(_)) == IF r.err /= NoError THEN r ELSE F(r)
Set(r, o) == [r EXCEPT !.o = o]
Throw(r, e) == [r EXCEPT !.err = e]

LoadPrivateKeyMut(r, file) ==
    LET o == r.o
    IN  IF file.kind = "error" THEN Throw(r, file.e)
        ELSE IF EndsWithPem(o.privateKey.p)
        THEN LET parsed == IF IsUndefined(o.rsa) THEN ImportPrivatePem(file.bytes)
                           ELSE Returned(o.rsa)
             IN  IF ~parsed.ok THEN Throw(r, parsed.err)
                 ELSE Set(r, [o EXCEPT !.rsa = parsed.val,
                                       !.privateKey = Bytes(PrivateDer(parsed.val.k))])
        ELSE Set(r, [o EXCEPT !.privateKey = Bytes(file.bytes)])

\* lines 583-593: options.privateKey is a path and readFile has settled
LoadPrivateKey(r, file) ==
    LET o == r.o
    IN  IF file.kind = "error"
        THEN IF file.e /= "ENOENT" THEN Throw(r, file.e)
             ELSE Set(r, [o EXCEPT !.privateKey = Undefined])
        ELSE IF EndsWithPem(o.privateKey.p)
        THEN LET parsed == IF IsUndefined(o.rsa) THEN ImportPrivatePem(file.bytes)
                           ELSE Returned(o.rsa)
             IN  IF ~parsed.ok THEN Throw(r, parsed.err)
                 ELSE Set(r, [o EXCEPT !.rsa = parsed.val,
                                       !.privateKey = Bytes(PrivateDer(parsed.val.k))])
        ELSE Set(r, [o EXCEPT !.privateKey = Bytes(file.bytes)])

\* lines 594-604: options.publicKey is a path and readFile has settled
LoadPublicKey(r, file) ==
    LET o == r.o
    IN  IF file.kind = "error"
        THEN IF file.e /= "ENOENT" THEN Throw(r, file.e)
             ELSE Set(r, [o EXCEPT !.publicKey = Undefined])
        ELSE IF EndsWithPem(o.publicKey.p)
        THEN LET parsed == ImportPublicPem(file.bytes)
             IN  IF ~parsed.ok THEN Throw(r, parsed.err)
                 ELSE Set(r, [o EXCEPT !.publicKey = Bytes(PublicDer(parsed.val.k))])
        ELSE Set(r, [o EXCEPT !.publicKey = Bytes(file.bytes)])

OrNull(x) == IF IsUndefined(x) THEN Null ELSE x

CascadeUpdateXMLMut(r) ==
    LET o == r.o
        promoted == Set(r, [o EXCEPT !.id = OrNull(@), !.extVersion = OrNull(@),
                                     !.minChromeVersion = OrNull(@)])
    IN  IF ~IsNull(o.updateXML) THEN r
        ELSE IF IsUndefined(o.crxUrl) THEN Throw(promoted, CrxUrlError)
        ELSE promoted

\* lines 605-610
CascadeUpdateXML(r) ==
    LET o == r.o
    IN  IF ~IsNull(o.updateXML) THEN r
        ELSE IF IsUndefined(o.crxUrl) THEN Throw(r, CrxUrlError)
        ELSE Set(r, [o EXCEPT !.id = OrNull(@), !.extVersion = OrNull(@),
                              !.minChromeVersion = OrNull(@)])

\* lines 611-613
CascadeExtVersion(r) ==
    IF IsNull(r.o.extVersion) THEN Set(r, [r.o EXCEPT !.manifest = OrNull(@)]) ELSE r

\* lines 614-616
CascadeMinChromeVersion(r) ==
    IF IsNull(r.o.minChromeVersion) THEN Set(r, [r.o EXCEPT !.manifest = OrNull(@)]) ELSE r

CascadeCrxMut(r) ==
    LET o == r.o
    IN  IF IsUndefined(o.crx) THEN r
        ELSE IF IsUndefined(o.contents) THEN Throw(r, ContentsError)
        ELSE Set(r, [o EXCEPT !.crx = Null, !.privateKey = OrNull(@),
                              !.publicKey = OrNull(@)])

\* lines 617-621
CascadeCrx(r) ==
    LET o == r.o
    IN  IF ~IsNull(o.crx) THEN r
        ELSE IF IsUndefined(o.contents) THEN Throw(r, ContentsError)
        ELSE Set(r, [o EXCEPT !.privateKey = OrNull(@), !.publicKey = OrNull(@)])

\* lines 622-624
CascadeId(r) ==
    IF IsNull(r.o.id) THEN Set(r, [r.o EXCEPT !.publicKey = OrNull(@)]) ELSE r

CascadePublicKeyMut(r) == Set(r, [r.o EXCEPT !.privateKey = OrNull(@)])

\* lines 625-627
CascadePublicKey(r) ==
    IF IsNull(r.o.publicKey) THEN Set(r, [r.o EXCEPT !.privateKey = OrNull(@)]) ELSE r

\* line 630: options.keySize || 4096
KeySize(keySize) == IF Truthy(keySize) THEN keySize.n ELSE 4096

\* lines 629-633: g is the key pair new RSA({b}) generates
ResolvePrivateKey(r, g) ==
    LET o == r.o
        rsa == IF IsUndefined(o.rsa) THEN NewRsa(g) ELSE o.rsa
    IN  IF ~IsNull(o.privateKey) THEN r
        ELSE [r EXCEPT !.o = [o EXCEPT !.rsa = rsa,
                                       !.privateKey = Bytes(PrivateDer(rsa.k)),
                                       !.publicKey = Bytes(PublicDer(rsa.k))],
                       !.gen = IF IsUndefined(o.rsa) THEN @ + 1 ELSE @,
                       !.bits = IF IsUndefined(o.rsa) THEN KeySize(o.keySize) ELSE @]

\* lines 634-636
ResolvePublicKey(r) ==
    LET o == r.o
        rsa == RsaOr(o.rsa, o.privateKey.b)
    IN  IF ~IsNull(o.publicKey) THEN r
        ELSE Step(Set(r, [o EXCEPT !.rsa = rsa, !.publicKey = Bytes(PublicDer(rsa.k))]),
                  "publicKey", [privateKey |-> o.privateKey])

\* lines 637-639: options.contents is a path and packContents has settled
ResolveContents(r, dir) ==
    IF dir.kind = "error" THEN Throw(r, dir.e)
    ELSE Set(r, [r.o EXCEPT !.contents = Bytes(dir.contents), !.manifest = dir.manifest])

IsVersion3(v) == IsUndefined(v) \/ IsNull(v) \/ (v.t = "num" /\ v.n = 3)

ResolveCrxMut(r) ==
    LET o == r.o
        built == IF IsVersion3(o.crxVersion)
                 THEN packCrx3(o.privateKey.b, o.contents.b, o.publicKey.b, o.rsa)
                 ELSE packCrx2(o.privateKey.b, o.contents.b, o.publicKey.b, o.rsa)
    IN  IF ~IsNull(o.crx) THEN r
        ELSE IF ~IsVersion3(o.crxVersion) /\ ~(o.crxVersion.t = "num" /\ o.crxVersion.n = 2) THEN r
        ELSE IF ~built.ok THEN Throw(r, built.err)
        ELSE Set(r, [o EXCEPT !.crx = Bytes(built.val)])

\* lines 640-643
ResolveCrx(r) ==
    LET o == r.o
        built == IF IsVersion3(o.crxVersion)
                 THEN packCrx3(o.privateKey.b, o.publicKey.b, o.contents.b, o.rsa)
                 ELSE packCrx2(o.privateKey.b, o.publicKey.b, o.contents.b, o.rsa)
        used == [privateKey |-> o.privateKey, publicKey |-> o.publicKey,
                 contents |-> o.contents]
    IN  IF ~IsNull(o.crx) THEN r
        ELSE IF ~IsVersion3(o.crxVersion) /\ ~(o.crxVersion.t = "num" /\ o.crxVersion.n = 2) THEN r
        ELSE IF ~built.ok THEN Throw(Step(r, "crx", used), built.err)
        ELSE Step(Set(r, [o EXCEPT !.crx = Bytes(built.val)]), "crx", used)

\* lines 644-646
ResolveId(r) ==
    IF IsNull(r.o.id)
    THEN Step(Set(r, [r.o EXCEPT !.id = Chars(generateCrxId(r.o.publicKey.b))]),
              "id", [publicKey |-> r.o.publicKey])
    ELSE r

ResolveExtVersionMut(r) ==
    LET o == r.o
    IN  IF ~IsNull(o.extVersion) \/ ~Truthy(o.manifest) THEN r
        ELSE Set(r, [o EXCEPT !.extVersion = o.manifest.version])

\* lines 647-650
ResolveExtVersion(r) ==
    LET o == r.o
    IN  IF ~IsNull(o.extVersion) THEN r
        ELSE IF ~Truthy(o.manifest) THEN Throw(r, ManifestError)
        ELSE Step(Set(r, [o EXCEPT !.extVersion = o.manifest.version]),
                  "extVersion", [manifest |-> o.manifest])

DefaultMinChromeVersionMut(crxVersion) == Str("73.0.3683")

\* line 652, right of ||
DefaultMinChromeVersion(crxVersion) ==
    IF IsVersion3(crxVersion) THEN Str("73.0.3683") ELSE Undefined

\* lines 651-653
ResolveMinChromeVersion(r) ==
    LET o == r.o
        declared == IF Truthy(o.manifest) THEN o.manifest.minimum_chrome_version ELSE Undefined
    IN  IF ~IsNull(o.minChromeVersion) THEN r
        ELSE Step(Set(r, [o EXCEPT !.minChromeVersion =
                            IF Truthy(declared) THEN declared
                            ELSE DefaultMinChromeVersion(o.crxVersion)]),
                  "minChromeVersion", [manifest |-> o.manifest])

\* lines 654-656
ResolveUpdateXML(r) ==
    LET o == r.o
    IN  IF ~IsNull(o.updateXML) THEN r
        ELSE Step(Set(r, [o EXCEPT !.updateXML =
                            [t |-> "xml",
                             x |-> generateUpdateXML(o.id, o.crxUrl, o.extVersion,
                                                     o.minChromeVersion)]]),
                  "updateXML", [id |-> o.id, extVersion |-> o.extVersion])

\* lines 605-627: requested outputs promote their unset prerequisites
BackwardPass(r) ==
    Then(Then(Then(Then(Then(CascadeUpdateXML(r), CascadeExtVersion), CascadeMinChromeVersion),
        CascadeCrx), CascadeId), CascadePublicKey)

ResolveKeysMut(r, g) ==
    Then(ResolvePrivateKey(BackwardPass(r), g), ResolvePublicKey)

\* lines 605-636: the backward pass, then the two keys
ResolveKeys(r, g) ==
    LET withPrivate(x) == ResolvePrivateKey(x, g)
    IN  Then(Then(BackwardPass(r), withPrivate), ResolvePublicKey)

ForwardPassMut(r) ==
    Then(Then(Then(Then(ResolveCrx(r), ResolveUpdateXML), ResolveId), ResolveExtVersion),
        ResolveMinChromeVersion)

\* lines 640-657: from the container to the update document
ForwardPass(r) ==
    Then(Then(Then(Then(ResolveCrx(r), ResolveId), ResolveExtVersion),
        ResolveMinChromeVersion), ResolveUpdateXML)

\* Where pack() stands after running from a statement to its next suspension
\* point, its return or its throw: [pc, o, err, gen].
ReturnMut(r) == [t |-> "ref", obj |-> "copy"]

\* line 657: return options
Return(r) == r.self

At(label, r) ==
    [pc |-> label, o |-> r.o, err |-> r.err, gen |-> r.gen, steps |-> r.steps, bits |-> r.bits,
     result |-> IF label = "done" THEN Return(r) ELSE Undefined]
Settle(r) == At(IF r.err /= NoError THEN "rejected" ELSE "done", r)

FromContentsMut(r) ==
    IF r.err /= NoError THEN Settle(r)
    ELSE IF IsPath(r.o.contents) THEN At("awaitContents", ResolveId(r))
    ELSE Settle(ForwardPass(r))

\* lines 637-639: the await of packContents, or straight on
FromContents(r) ==
    IF r.err /= NoError THEN Settle(r)
    ELSE IF IsPath(r.o.contents) THEN At("awaitContents", r)
    ELSE Settle(ForwardPass(r))

FromPublicKey(r, g) ==
    IF r.err /= NoError THEN Settle(r)
    ELSE IF IsPath(r.o.publicKey) THEN At("awaitPublicKey", r)
    ELSE FromContents(ResolveKeys(r, g))

FromPrivateKey(r, g) ==
    IF IsPath(r.o.privateKey) THEN At("awaitPrivateKey", r)
    ELSE FromPublicKey(r, g)

Become(m) ==
    /\ pc' = m.pc
    /\ options' = m.o
    /\ err' = m.err
    /\ keygens' = m.gen
    /\ result' = m.result
    /\ steps' = m.steps
    /\ keybits' = m.bits

NoSnapshot == [t |-> "undefined"]

\* pack() as it stands when a call starts or resumes after an await
Running == [Run(options, NoError, keygens) EXCEPT !.steps = steps, !.bits = keybits]

PackIdle ==
    /\ pc = "idle"
    /\ input = NoOptions
    /\ options = NoOptions
    /\ fsys = NothingRead
    /\ err = NoError
    /\ keygens = 0
    /\ result = Undefined
    /\ steps = <<>>
    /\ keybits = 0
    /\ again = NoSnapshot

\* The caller calls pack(options): pack runs to its first await or to its end.
Call ==
    /\ pc = "call"
    /\ \E g \in KeyIds : Become(FromPrivateKey(Running, g))
    /\ UNCHANGED <<input, fsys, again>>
    /\ UNCHANGED codecVars

\* await fs.readFile(options.privateKey) settles
ReadPrivateKey ==
    /\ pc = "awaitPrivateKey"
    /\ \E file \in PrivateKeyFiles(options.privateKey.p), g \in KeyIds :
        /\ fsys' = [fsys EXCEPT !.privateKey = file]
        /\ Become(FromPublicKey(LoadPrivateKey(Running, file), g))
    /\ UNCHANGED <<input, again>>
    /\ UNCHANGED codecVars

\* await fs.readFile(options.publicKey) settles
ReadPublicKey ==
    /\ pc = "awaitPublicKey"
    /\ \E file \in PublicKeyFiles(options.publicKey.p), g \in KeyIds :
        /\ fsys' = [fsys EXCEPT !.publicKey = file]
        /\ LET r == LoadPublicKey(Running, file)
           IN  Become(IF r.err /= NoError THEN Settle(r) ELSE FromContents(ResolveKeys(r, g)))
    /\ UNCHANGED <<input, again>>
    /\ UNCHANGED codecVars

\* await packContents(options.contents) settles
PackContents ==
    /\ pc = "awaitContents"
    /\ \E dir \in DirOutcomes :
        /\ fsys' = [fsys EXCEPT !.contents = dir]
        /\ LET r == ResolveContents(Running, dir)
           IN  Become(IF r.err /= NoError THEN Settle(r) ELSE Settle(ForwardPass(r)))
    /\ UNCHANGED <<input, again>>
    /\ UNCHANGED codecVars

\* The caller calls pack() again on the record a first call resolved with.
CallAgain ==
    /\ pc = "done"
    /\ again = NoSnapshot
    /\ again' = [o |-> options, gen |-> keygens, steps |-> steps, reads |-> fsys]
    /\ pc' = "call"
    /\ result' = Undefined
    /\ UNCHANGED <<input, options, fsys, err, keygens, steps, keybits>>
    /\ UNCHANGED codecVars

(***************************************************************************)
(* Specifications.                                                         *)
(***************************************************************************)
\* A caller has built a record and is about to call pack().
PackInit ==
    /\ CodecIdle
    /\ pc = "call"
    /\ input \in PackInputs
    /\ options = input
    /\ fsys = NothingRead
    /\ err = NoError
    /\ keygens = 0
    /\ result = Undefined
    /\ steps = <<>>
    /\ keybits = 0
    /\ again = NoSnapshot

\* A caller is about to use the exported functions directly.
CodecInit == CodecIdle /\ PackIdle

CodecNext ==
    \/ CallPackCrx3
    \/ CallPackCrx2
    \/ CallUnpack
    \/ CallUnpackRaw
    \/ CallGenerateCrxId
    \/ CallGenerateUpdateXML
    \/ StartPackContents
    \/ ReadCompletes
    \/ FinishPackContents

PackNext == Call \/ ReadPrivateKey \/ ReadPublicKey \/ PackContents \/ CallAgain

Init == PackInit \/ CodecInit

Next == PackNext \/ CodecNext

\* The whole package: a pack() call, or direct calls of the codec.
Spec == Init /\ [][Next]_vars

\* The codec alone.
CodecSpec == CodecInit /\ [][CodecNext]_vars

(***************************************************************************)
(* Properties of the codec (checked under CodecSpec).                      *)
(***************************************************************************)
Unpacked(fn) == op = "unpack" /\ arg.fn = fn

\* C1: unpack(packCrx3(priv, pub, contents)) returns crxVersion 3, an archive
\* equal to contents byte for byte (empty contents included), and a header
\* whose signed_header_data is a SignedData message with crx_id equal to the
\* first 16 bytes of SHA-256(pub); packCrx3 itself never throws.
C1_Crx3RoundTrip ==
    /\ op = "packCrx3" => out.ok
    /\ Unpacked("packCrx3") =>
        /\ out.ok
        /\ out.val.crxVersion = 3
        /\ out.val.archive = arg.contents
        /\ IsBytes(out.val.header.signed_header_data)
        /\ SignedDataRead(out.val.header.signed_header_data.b).crx_id
             = Bytes([i \in 1..16 |-> Sha256(arg.publicKey)[i]])

C1_Witness ==
    /\ Unpacked("packCrx3")
    /\ arg.contents = <<>>
    /\ arg.publicKey = PublicDer(1)
    /\ out.ok

\* C2: packCrx2(priv, pub, contents) returns a buffer for every contents, in
\* particular every non-empty one, and unpack of it returns crxVersion 2, key
\* equal to pub, archive equal to contents and a sign of nonzero length.
C2_Crx2RoundTrip ==
    /\ op = "packCrx2" => out.ok
    /\ Unpacked("packCrx2") =>
        /\ out.ok
        /\ out.val.crxVersion = 2
        /\ out.val.key = arg.publicKey
        /\ out.val.archive = arg.contents
        /\ Len(out.val.sign) > 0

\* C3: for every input whose first 4 bytes are not 'Cr24' (the empty buffer
\* and buffers shorter than 4 bytes included) unpack fails with the format
\* error and with no other exception.
C3_BadMagicIsFormatError ==
    (op = "unpackRaw" /\ Take(ViewBytes(crxbuf), 4) /= kSignature)
        => (~out.ok /\ out.err = FormatError)

\* C4: for every buffer that starts with the magic bytes and whose version
\* field (bytes 4..7, little-endian) is neither 2 nor 3, unpack fails with the
\* format error and returns nothing.
C4_BadVersionIsFormatError ==
    (/\ op = "unpackRaw"
     /\ Len(ViewBytes(crxbuf)) >= 8
     /\ Take(ViewBytes(crxbuf), 4) = kSignature
     /\ GetUint32(ViewBytes(crxbuf), 4) \notin {2, 3})
        => (~out.ok /\ out.err = FormatError)

\* C5: generateCrxId(k) has exactly 32 characters, each in 'a'..'p', the i-th
\* being 'a' + the i-th hexadecimal nibble of SHA-256(k).
Letters == <<"a", "b", "c", "d", "e", "f", "g", "h",
             "i", "j", "k", "l", "m", "n", "o", "p">>
Nibble(digest, i) ==
    IF i % 2 = 1 THEN digest[(i + 1) \div 2] \div 16 ELSE digest[i \div 2] % 16

Present(x) == x.t \notin {"undefined", "null"}
Resolved == pc = "done"
Rejected == pc = "rejected"

\* C6: pack called with only {contents: <directory path>, privateKey: null,
\* crx: null} resolves (whenever the directory can be packaged) with a freshly
\* generated privateKey and its publicKey, contents replaced by the packaged
\* archive bytes, crx a container whose unpacked archive equals those bytes,
\* and updateXML still undefined.
DirectoryOnlyInput ==
    [NoOptions EXCEPT !.contents = Path("./extension"), !.privateKey = Null, !.crx = Null]

C6_DirectoryOnly ==
    input = DirectoryOnlyInput =>
        /\ Rejected => (fsys.contents.kind = "error" /\ err = fsys.contents.e)
        /\ Resolved =>
            /\ keygens = 1
            /\ \E k \in KeyIds :
                /\ options.privateKey = Bytes(PrivateDer(k))
                /\ options.publicKey = Bytes(PublicDer(k))
            /\ fsys.contents.kind = "packed"
            /\ options.contents = Bytes(fsys.contents.contents)
            /\ IsBytes(options.crx)
            /\ unpack(Whole(options.crx.b)).ok
            /\ unpack(Whole(options.crx.b)).val.archive = options.contents.b
            /\ IsUndefined(options.updateXML)

C6_Witness ==
    /\ input = DirectoryOnlyInput
    /\ Resolved
    /\ IsBytes(options.crx)

\* C7: pack called with crx requested (null) and contents undefined never
\* resolves; unless an earlier statement already threw (a key file that cannot
\* be read, updateXML requested without crxUrl) it rejects with the 'contents
\* must be defined to generate crx' error; and at the moment of rejection no
\* key pair has been generated: rsa, privateKey and publicKey are what the
\* caller gave or what was loaded from the caller's files.
ReadFailed(file) == file.kind = "error" /\ file.e /= "ENOENT"
NotParsed(file, path) ==
    IsPath(path) /\ EndsWithPem(path.p) /\ file.kind = "file" /\ file.bytes = NotAKey
KeyFileThrows ==
    \/ ReadFailed(fsys.privateKey)
    \/ IsUndefined(input.rsa) /\ NotParsed(fsys.privateKey, input.privateKey)
    \/ ReadFailed(fsys.publicKey)
    \/ NotParsed(fsys.publicKey, input.publicKey)
ThrowsBeforeCrx ==
    \/ KeyFileThrows
    \/ (IsNull(input.updateXML) /\ IsUndefined(input.crxUrl))

C7_NoContentsNoKey ==
    (IsNull(input.crx) /\ IsUndefined(input.contents)) =>
        /\ ~Resolved
        /\ keygens = 0
        /\ Rejected =>
            /\ ~ThrowsBeforeCrx => err = ContentsError
            /\ ~IsPath(input.privateKey) =>
                (options.privateKey = input.privateKey /\ options.rsa = input.rsa)
            /\ ~IsPath(input.publicKey) => options.publicKey = input.publicKey

C7_Witness ==
    /\ input = [NoOptions EXCEPT !.crx = Null]
    /\ Rejected
    /\ err = ContentsError
    /\ keygens = 0

\* C8: when minChromeVersion is requested (null, by the caller or because
\* updateXML is requested), pack sets it to the manifest's
\* minimum_chrome_version if the manifest declares one; otherwise to
\* "73.0.3683" when crxVersion is 3 or undefined; otherwise (crxVersion 2) it
\* is left undefined, not null.
MinChromeVersionRequested ==
    \/ IsNull(input.minChromeVersion)
    \/ (IsNull(input.updateXML) /\ IsUndefined(input.minChromeVersion))

Declares(manifest) ==
    /\ manifest.t = "manifest"
    /\ manifest.minimum_chrome_version.t = "str"

C8_MinChromeVersion ==
    (Resolved /\ MinChromeVersionRequested) =>
        IF Declares(options.manifest)
        THEN options.minChromeVersion = options.manifest.minimum_chrome_version
        ELSE IF input.crxVersion \in {Undefined, Num(3)}
        THEN options.minChromeVersion = Str("73.0.3683")
        ELSE IsUndefined(options.minChromeVersion)

C8_Witness ==
    /\ Resolved
    /\ MinChromeVersionRequested
    /\ input.crxVersion = Num(2)
    /\ ~Declares(options.manifest)
    /\ IsUndefined(options.minChromeVersion)

\* C9: generateUpdateXML(id, url, version, min) renders appid=id,
\* codebase=url and version=version, and prodversionmin appears if and only
\* if a minimum version value (a non-empty string) is supplied, its value then
\* being min; so the updateXML pack builds for crxVersion 2 without a manifest
\* minimum has no prodversionmin.
HasAttr(xml, opener) == \E i \in 1..Len(xml) : xml[i] = Lit(opener)
AttrIs(xml, opener, x) ==
    /\ Cardinality({i \in 1..Len(xml) : xml[i] = Lit(opener)}) = 1
    /\ \A i \in 1..Len(xml) :
        xml[i] = Lit(opener) => (i + 2 <= Len(xml) /\ xml[i + 1] = Val(x) /\ xml[i + 2] = Lit("'"))
Supplied(min) == min.t = "str" /\ min.s /= ""

Renders(xml, id, url, version, min) ==
    /\ AttrIs(xml, " appid='", id)
    /\ AttrIs(xml, " codebase='", url)
    /\ AttrIs(xml, " version='", version)
    /\ HasAttr(xml, " prodversionmin='") <=> Supplied(min)
    /\ Supplied(min) => AttrIs(xml, " prodversionmin='", min)

C9_UpdateXML ==
    /\ op = "generateUpdateXML" =>
        Renders(out.val, arg.crxId, arg.url, arg.version, arg.minChromeVersion)
    /\ (Resolved /\ IsNull(input.updateXML)) =>
        /\ options.updateXML.t = "xml"
        /\ Renders(options.updateXML.x, options.id, options.crxUrl,
                   options.extVersion, options.minChromeVersion)
        /\ (input.crxVersion = Num(2) /\ ~Declares(options.manifest)
                /\ ~Present(input.minChromeVersion))
            => ~HasAttr(options.updateXML.x, " prodversionmin='")

C9_Witness ==
    /\ Resolved
    /\ IsNull(input.updateXML)
    /\ input.crxVersion = Num(2)
    /\ ~Declares(options.manifest)
    /\ ~HasAttr(options.updateXML.x, " prodversionmin='")

\* C10: in every successful pack, for each requested output, every direct
\* prerequisite the caller left unset is itself derived and present in the
\* result, transitively along updateXML -> {id, extVersion, minChromeVersion},
\* extVersion/minChromeVersion -> manifest, crx -> {privateKey, publicKey},
\* id -> publicKey, publicKey -> privateKey.
Prerequisites ==
    {<<"updateXML", "id">>, <<"updateXML", "extVersion">>, <<"updateXML", "minChromeVersion">>,
     <<"extVersion", "manifest">>, <<"minChromeVersion", "manifest">>,
     <<"crx", "privateKey">>, <<"crx", "publicKey">>,
     <<"id", "publicKey">>, <<"publicKey", "privateKey">>}
Promoted(R) == R \cup {e[2] : e \in {d \in Prerequisites : d[1] \in R /\ IsUndefined(input[d[2]])}}
RequestedFields ==
    Promoted(Promoted(Promoted(Promoted({f \in DOMAIN input : IsNull(input[f])}))))

C10_Cascade ==
    Resolved =>
        \A e \in Prerequisites :
            (e[1] \in RequestedFields /\ IsUndefined(input[e[2]])) => Present(options[e[2]])

(***************************************************************************)
(* Properties of pack(): what it leaves alone (checked under Spec).        *)
(***************************************************************************)
GivenFields ==
    {"privateKey", "publicKey", "manifest", "id", "crx", "extVersion", "minChromeVersion",
     "updateXML"}
Given(x) == Present(x) /\ ~IsPath(x)

\* C11: every field the caller supplied as a concrete value (neither null,
\* undefined nor a path string) - privateKey, publicKey, manifest, id, crx,
\* extVersion, minChromeVersion, updateXML - holds the same value after pack
\* resolves, whatever the states of the other fields.
C11_GivenUntouched ==
    Resolved => \A f \in GivenFields : Given(input[f]) => options[f] = input[f]

\* A key field as the cascade finds it: a path whose file does not exist has
\* become undefined.
NotFound(f) == IsPath(input[f]) /\ fsys[f].kind = "error" /\ fsys[f].e = "ENOENT"
Loaded(f) == IF f \in {"privateKey", "publicKey"} /\ NotFound(f) THEN Undefined ELSE input[f]
Unset(f) == IsUndefined(Loaded(f))
Cascaded(R) == R \cup {e[2] : e \in {d \in Prerequisites : d[1] \in R /\ Unset(d[2])}}
\* The fields that are requested, by the caller or by a requested output
\* that depends on them.
Wanted == Cascaded(Cascaded(Cascaded(Cascaded({f \in DOMAIN input : IsNull(input[f])}))))
PemKeyLoaded ==
    /\ IsPath(input.privateKey)
    /\ EndsWithPem(input.privateKey.p)
    /\ fsys.privateKey.kind = "file"

\* C12 as stated: a field the caller left unset on which no requested output
\* depends is still unset after pack resolves, and nothing is computed for
\* it: no key generation, no directory packaging, no signing.
C12_UnsetNeverComputed ==
    Resolved =>
        /\ \A f \in GivenFields :
            (IsUndefined(input[f]) /\ f \notin Wanted) => IsUndefined(options[f])
        /\ "privateKey" \notin Wanted => keygens = 0
        /\ (Wanted \cap {"manifest", "crx"} = {}) => fsys.contents = Unread
        /\ "crx" \notin Wanted => options.crx = input.crx

\* C12, amended: a field the caller left unset on which no requested output
\* depends is still unset after pack resolves, no key is generated and no
\* container is signed for it, except that a contents path is always
\* packaged (which sets manifest), that generating a requested privateKey
\* sets publicKey too, and that rsa is set whenever a key is generated,
\* derived or loaded from a .pem file.
C12_UnsetStaysUnset ==
    Resolved =>
        /\ \A f \in {"id", "crx", "extVersion", "minChromeVersion", "updateXML", "privateKey"} :
            (IsUndefined(input[f]) /\ f \notin Wanted) => IsUndefined(options[f])
        /\ (IsUndefined(input.manifest) /\ "manifest" \notin Wanted /\ ~IsPath(input.contents))
            => IsUndefined(options.manifest)
        /\ (IsUndefined(input.publicKey) /\ Wanted \cap {"publicKey", "privateKey"} = {})
            => IsUndefined(options.publicKey)
        /\ (IsUndefined(input.rsa) /\ Wanted \cap {"publicKey", "privateKey"} = {} /\ ~PemKeyLoaded)
            => IsUndefined(options.rsa)
        /\ "privateKey" \notin Wanted => keygens = 0
        /\ ~IsPath(input.contents) => fsys.contents = Unread
        /\ "crx" \notin Wanted => options.crx = input.crx

C12_Witness ==
    /\ input = [NoOptions EXCEPT !.contents = Bytes(ArchiveBytes), !.extVersion = Null,
                                 !.manifest = GivenManifest]
    /\ Resolved
    /\ options.extVersion = Str("0.9")
    /\ IsUndefined(options.privateKey)
    /\ IsUndefined(options.crx)
    /\ keygens = 0

\* C13: whenever pack resolves, no field of the returned record still holds
\* null: every requested field is concrete, or the call rejected.
C13_NoSentinelLeft ==
    Resolved => \A f \in DOMAIN options : ~IsNull(options[f])

\* C14: pack called with crx requested and a crxVersion that is neither 2, 3
\* nor undefined never resolves with crx left unbuilt (it rejects).
SupportedVersion(v) == IsUndefined(v) \/ (v.t = "num" /\ v.n \in {2, 3})
C14_UnsupportedVersion ==
    (IsNull(input.crx) /\ ~SupportedVersion(input.crxVersion)) => ~(Resolved /\ IsNull(options.crx))

(***************************************************************************)
(* Properties of pack(): its errors (checked under Spec).                  *)
(***************************************************************************)
ExtVersionRequested ==
    IsNull(input.extVersion) \/ (IsNull(input.updateXML) /\ IsUndefined(input.extVersion))
NoManifestObtainable == ~Given(input.manifest) /\ ~IsPath(input.contents)
\* A statement before line 648 throws.
ThrowsBeforeExtVersion ==
    \/ ThrowsBeforeCrx
    \/ IsNull(input.crx) /\ IsUndefined(input.contents)
    \/ IsNull(input.crx) /\ input.crxVersion = Num(2)

\* C15: pack called with extVersion requested (directly or via updateXML) and
\* no manifest obtainable (manifest not given, contents not a directory path)
\* never resolves; unless an earlier statement has thrown, it rejects with
\* the 'manifest must be defined to generate extVersion' error.
C15_ExtVersionNeedsManifest ==
    (ExtVersionRequested /\ NoManifestObtainable) =>
        /\ ~Resolved
        /\ (Rejected /\ ~ThrowsBeforeExtVersion) => err = ManifestError

C15_Witness ==
    /\ input = [NoOptions EXCEPT !.updateXML = Null, !.crxUrl = Str("https://x/e.crx"),
                                 !.contents = Bytes(ArchiveBytes)]
    /\ Rejected
    /\ err = ManifestError

\* C16: pack called with updateXML requested and crxUrl undefined never
\* resolves and, unless reading a key file failed before, rejects with the
\* 'crxUrl must be defined to generate updateXML' error, also when contents
\* is missing for a requested crx; at rejection no field has been promoted
\* to requested and no key has been generated.
C16_CrxUrlFirst ==
    (IsNull(input.updateXML) /\ IsUndefined(input.crxUrl)) =>
        /\ ~Resolved
        /\ keygens = 0
        /\ Rejected =>
            /\ ~KeyFileThrows => err = CrxUrlError
            /\ \A f \in DOMAIN input \ {"privateKey", "publicKey", "rsa"} : options[f] = input[f]
            /\ \A f \in {"privateKey", "publicKey"} :
                /\ ~IsPath(input[f]) => options[f] = input[f]
                /\ ~IsNull(input[f]) => ~IsNull(options[f])
            /\ ~IsPath(input.privateKey) => options.rsa = input.rsa

C16_Witness ==
    /\ input = [NoOptions EXCEPT !.updateXML = Null, !.crx = Null]
    /\ Rejected
    /\ err = CrxUrlError
    /\ options = input

(***************************************************************************)
(* Properties of pack(): the record it returns and when it fills it        *)
(* (checked under Spec).                                                   *)
(***************************************************************************)
\* C17: whenever pack resolves, the value it resolves to is the very record
\* the caller passed in, the one whose fields hold every derived value.
C17_SameRecord ==
    /\ Resolved => result = CallerRecord
    /\ ~Resolved => result = Undefined

C17_Witness ==
    /\ Resolved
    /\ result = CallerRecord
    /\ IsNull(input.id)
    /\ options.id.t = "chars"

NoKeyPaths == ~IsPath(input.privateKey) /\ ~IsPath(input.publicKey)
LateFields == {"crx", "id", "extVersion", "minChromeVersion", "updateXML"}

KeyFields == {"privateKey", "publicKey"}
OtherReadError(f) == IsPath(input[f]) /\ ReadFailed(fsys[f])
ParseError(f) ==
    /\ NotParsed(fsys[f], input[f])
    /\ f = "privateKey" => IsUndefined(input.rsa)

\* C19 as stated: when a key path names no file, pack does not reject for
\* that reason; the field becomes unset and is generated or derived if and
\* only if a requested output depends on it, and is undefined in the result
\* otherwise; any other read or parse error rejects pack with that error.
C19_NotFoundIsUnset ==
    \A f \in KeyFields :
        /\ NotFound(f) =>
            /\ err /= "ENOENT"
            /\ Resolved => IF f \in Wanted THEN IsBytes(options[f]) ELSE IsUndefined(options[f])
        /\ OtherReadError(f) => (Rejected /\ err = fsys[f].e)
        /\ ParseError(f) => (Rejected /\ err = KeyFormatError)

\* C19, amended: when a key path names no file, pack does not reject for
\* that reason; the field becomes unset and is generated or derived if and
\* only if a requested output depends on it or, for publicKey, privateKey is
\* requested (its generation sets publicKey too), and is undefined in the
\* result otherwise; any other read or parse error rejects pack with that
\* error.
C19_NotFoundIsAbsent ==
    \A f \in KeyFields :
        /\ NotFound(f) =>
            /\ err /= "ENOENT"
            /\ Resolved =>
                IF f \in Wanted \/ (f = "publicKey" /\ "privateKey" \in Wanted)
                THEN IsBytes(options[f]) ELSE IsUndefined(options[f])
        /\ OtherReadError(f) => (Rejected /\ err = fsys[f].e)
        /\ ParseError(f) => (Rejected /\ err = KeyFormatError)

C19_Witness ==
    /\ NotFound("privateKey")
    /\ IsNull(input.crx)
    /\ Resolved
    /\ IsBytes(options.privateKey)
    /\ keygens = 1

\* The key a readable key file stores, in pkcs8-der.
StoredPrivateKey(file, path) ==
    IF EndsWithPem(path.p) THEN PrivateDer(file.bytes[4]) ELSE file.bytes
StoredPublicKey(file, path) ==
    IF EndsWithPem(path.p) THEN PublicDer(file.bytes[4]) ELSE file.bytes
Readable(f) == IsPath(input[f]) /\ fsys[f].kind = "file" /\ fsys[f].bytes /= NotAKey

\* C20: when privateKey or publicKey is a path to a readable key file and
\* that key is not regenerated, the field in the result holds the key the
\* file stores - its bytes unchanged, or the pkcs8-der conversion of its PEM
\* text for a path ending in '.pem' - whether or not the caller supplied an
\* rsa instance.
C20_KeyFromFile ==
    Resolved =>
        /\ Readable("privateKey") =>
            options.privateKey = Bytes(StoredPrivateKey(fsys.privateKey, input.privateKey))
        /\ (Readable("publicKey") /\ "privateKey" \notin Wanted) =>
            options.publicKey = Bytes(StoredPublicKey(fsys.publicKey, input.publicKey))

(***************************************************************************)
(* Properties of the CRX3 container (checked under CodecSpec).             *)
(***************************************************************************)
\* "CRX3 SignedData" followed by a zero byte
ContextString == <<67, 82, 88, 51, 32, 83, 105, 103, 110, 101, 100, 68, 97, 116, 97>> \o <<0>>
\* signed_header_data as packCrx3 stored it in the container it returned
StoredSignedHeaderData ==
    LET h == GetUint32(out.val, 8)
    IN  CrxFileHeaderRead(Slice(out.val, 12, 12 + h)).signed_header_data.b
SignedPayload ==
    ContextString \o LE32(Len(StoredSignedHeaderData)) \o StoredSignedHeaderData \o arg.contents

\* C21 as stated: the bytes packCrx3 signs are a 17-byte context string, the
\* 4-byte little-endian length of signed_header_data, signed_header_data and
\* the full contents, in this order, 17 + 4 + |signed_header_data| +
\* |contents| bytes in all.
C21_SignedBytes17 ==
    op = "packCrx3" =>
        /\ signed = SignedPayload
        /\ Len(signed) = 17 + 4 + Len(StoredSignedHeaderData) + Len(arg.contents)

\* C21, amended: the bytes packCrx3 signs are the 16-byte context string
\* "CRX3 SignedData\0", the 4-byte little-endian length of
\* signed_header_data, signed_header_data and the full contents, in this
\* order and nothing else: 16 + 4 + |signed_header_data| + |contents| bytes,
\* none of the outer framing and none of the proof entry.
C21_SignedBytes ==
    op = "packCrx3" =>
        /\ signed = SignedPayload
        /\ Len(ContextString) = 16
        /\ Len(signed) = 16 + 4 + Len(StoredSignedHeaderData) + Len(arg.contents)

C21_Witness ==
    /\ op = "packCrx3"
    /\ arg.contents = <<7, 200>>
    /\ Len(signed) = 40

\* C22: the buffer packCrx3 returns is 'Cr24', [3,0,0,0], the little-endian
\* length of the header, the header and the contents and nothing more; the
\* header is the CrxFileHeader message with exactly one sha256_with_rsa proof
\* {public_key = pub, signature}, no ECDSA proof, and signed_header_data.
C22_Crx3Layout ==
    op = "packCrx3" =>
        LET h == GetUint32(out.val, 8)
            header == Slice(out.val, 12, 12 + h)
            decoded == CrxFileHeaderRead(header)
        IN  /\ out.ok
            /\ Take(out.val, 4) = <<67, 114, 50, 52>>
            /\ Slice(out.val, 4, 8) = <<3, 0, 0, 0>>
            /\ Len(out.val) = 12 + h + Len(arg.contents)
            /\ SliceFrom(out.val, 12 + h) = arg.contents
            /\ Len(decoded.sha256_with_rsa) = 1
            /\ decoded.sha256_with_rsa[1].public_key = Bytes(arg.publicKey)
            /\ decoded.sha256_with_rsa[1].signature
                 = Bytes(RsaSign(RsaOr(arg.rsa, arg.privateKey), "pkcs1-sha256", signed))
            /\ decoded.sha256_with_ecdsa = <<>>
            /\ IsBytes(decoded.signed_header_data)
            /\ CrxFileHeaderWrite(decoded) = header

C22_Witness ==
    /\ op = "packCrx3"
    /\ out.ok
    /\ arg.contents = <<200>>
    /\ arg.publicKey = PublicDer(1)
    /\ Len(out.val) > 13

\* C26: for every public key, the id generateCrxId gives is the nibble
\* rendering of the 16-byte crx_id packCrx3 embeds in signed_header_data:
\* character 2i is 'a' + the high nibble of byte i, character 2i+1 is 'a' +
\* the low nibble of byte i.
C26_IdsAgree ==
    Unpacked("packCrx3") =>
        LET crx_id == SignedDataRead(out.val.header.signed_header_data.b).crx_id.b
        IN  /\ Len(crx_id) = 16
            /\ generateCrxId(arg.publicKey) =
                 Flatten([i \in 1..16 |-> <<Letters[(crx_id[i] \div 16) + 1],
                                           Letters[(crx_id[i] % 16) + 1]>>])

C26_Witness ==
    /\ Unpacked("packCrx3")
    /\ out.ok
    /\ arg.publicKey = PublicDer(2)
    /\ Len(generateCrxId(arg.publicKey)) = 32

\* C28: unpack depends only on the bytes of the Uint8Array it is given: a
\* view at any offset of a larger buffer gives what a fresh array of the same
\* bytes gives.
C28_BytesOnly ==
    op = "unpackRaw" => out = unpack(Whole(ViewBytes(crxbuf)))

\* C29: for every buffer that starts with the magic bytes but is truncated,
\* unpack either fails with the format error or returns slices that lie
\* inside the buffer; it raises no other exception and never returns a key
\* or sign shorter than its declared length.
C29_Truncated ==
    (op = "unpackRaw" /\ crxbuf.byteOffset = 0 /\ Take(crxbuf.buffer, 4) = kSignature) =>
        /\ ~out.ok => out.err = FormatError
        /\ (out.ok /\ out.val.crxVersion = 2) =>
            /\ Len(out.val.key) = GetUint32(crxbuf.buffer, 8)
            /\ Len(out.val.sign) = GetUint32(crxbuf.buffer, 12)

(***************************************************************************)
(* Properties of packContents (checked under CodecSpec).                   *)
(***************************************************************************)
SameTree(l1, l2) == Range(Walk(<<>>, l1)) = Range(Walk(<<>>, l2))

\* C25: the archive is finalized only after every read has completed, and it
\* is the same for every order in which the same directory tree is listed;
\* packContents fails with 'Manifest file not found' if and only if no
\* manifest.json lies directly at the root.
C25_PackContents ==
    op = "packContents" =>
        /\ out.ok <=> HasRootManifest(zip.entries)
        /\ ~out.ok => out.err = ManifestNotFound
        /\ out.ok =>
            /\ zip.pending = {}
            /\ out.val.manifest.version = Str("1.0")
            /\ \A other \in Listings :
                SameTree(other, arg.listing) => Archive(Walk(<<>>, other)) = out.val.contents

(***************************************************************************)
(* Properties of pack(): the order of the forward pass and the keys        *)
(* (checked under Spec).                                                   *)
(***************************************************************************)
IsString(x) == x.t \in {"str", "chars"}
Computed(output) == \E i \in 1..Len(steps) : steps[i].output = output

\* C23: each derived output is computed only after all of its prerequisites
\* hold concrete values: crx only from a privateKey, a publicKey and contents
\* that are byte buffers, publicKey only from a privateKey that is a byte
\* buffer, id only from a publicKey that is a byte buffer, updateXML only
\* from an id and an extVersion that are strings.
C23_PrerequisitesFirst ==
    \A i \in 1..Len(steps) :
        LET output == steps[i].output
            used == steps[i].used
        IN  /\ output = "crx" =>
                IsBytes(used.privateKey) /\ IsBytes(used.publicKey) /\ IsBytes(used.contents)
            /\ output = "publicKey" => IsBytes(used.privateKey)
            /\ output = "id" => IsBytes(used.publicKey)
            /\ output = "updateXML" => IsString(used.id) /\ IsString(used.extVersion)

C23_Witness ==
    /\ Resolved
    /\ IsPath(input.contents)
    /\ IsUndefined(input.privateKey)
    /\ IsUndefined(input.id)
    /\ Computed("crx")
    /\ Computed("id")
    /\ Computed("updateXML")

\* C24: whenever privateKey is requested (null, by the caller or by
\* cascade), pack generates a fresh key pair of keySize bits (4096 when
\* keySize is unset) and sets privateKey and publicKey to the two halves of
\* that pair, also when the caller supplied an rsa instance.
C24_FreshKeyPair ==
    (Resolved /\ "privateKey" \in Wanted) =>
        /\ keygens = 1
        /\ keybits = (IF IsUndefined(input.keySize) THEN 4096 ELSE input.keySize.n)
        /\ \E k \in KeyIds :
            /\ options.privateKey = Bytes(PrivateDer(k))
            /\ options.publicKey = Bytes(PublicDer(k))

\* The proof entry of the container pack built.
BuiltProof == unpack(Whole(options.crx.b)).val.header.sha256_with_rsa[1]
SigningKey(signature) == signature[1]

\* C27: whenever pack builds crx after loading, deriving or generating at
\* least one of the two keys, the signature in the container is made with
\* the private key the result holds in privateKey, and the public key in the
\* container is the result's publicKey, the public half of that privateKey -
\* for every rsa instance the caller supplies.
C27_KeyConsistency ==
    (/\ Resolved
     /\ IsNull(input.crx)
     /\ IsBytes(options.crx)
     /\ ~(Given(input.privateKey) /\ Given(input.publicKey))) =>
        /\ SigningKey(BuiltProof.signature.b) = ImportPrivateDer(options.privateKey.b)
        /\ BuiltProof.public_key = options.publicKey
        /\ options.publicKey = Bytes(PublicDer(ImportPrivateDer(options.privateKey.b)))

\* C30: calling pack again on the record a successful pack returned, with no
\* field changed in between, resolves without generating a key, packaging a
\* directory, reading a file or computing an output (no signing), and leaves
\* every field of the record unchanged.
C30_Idempotent ==
    (again /= NoSnapshot /\ pc /= "call") =>
        /\ Resolved
        /\ options = again.o
        /\ keygens = again.gen
        /\ fsys = again.reads
        /\ steps = again.steps

C30_Witness ==
    /\ again /= NoSnapshot
    /\ Resolved
    /\ IsPath(input.contents)
    /\ IsNull(input.crx)
    /\ IsNull(input.privateKey)
    /\ IsBytes(options.crx)
    /\ keygens = 1

====
